---- MODULE Spec2Model ----
(***************************************************************************)
(* Model of the consumer service: KafkaMessageConsumer (kafka_consumer.py) *)
(* with IdempotencyHandler, DataMerger and AnalyticsClient (utils.py).     *)
(*                                                                         *)
(* The consumer is single threaded.  pc is the position of that thread;    *)
(* the signal handler and the expiry of keys in the deduplication store    *)
(* are the only steps that interleave with it.                             *)
(* Spec allows every behaviour of the consumer, FairSpec those in which    *)
(* the thread keeps running, SendSpec follows one call of send_data.       *)
(***************************************************************************)
EXTENDS Integers, Sequences, FiniteSets, TLC

VARIABLES
    pc,               \* position of the consumer thread
    running,          \* self.running
    consumer,         \* self.consumer: "none", "open" or "closed"
    msg,              \* the message handed to _process_message
    site,             \* which commit call of _process_message is next
    stats,            \* self.stats
    customer_cache,   \* DataMerger.customer_cache, in insertion order
    inventory_cache,  \* DataMerger.inventory_cache, in insertion order
    store,            \* keys of the deduplication store ("processed:<hash>")
    cur,              \* history: effects of the message being processed
    prev,             \* history: effects of the message before it
    stats0,           \* history: self.stats when the message was polled
    sent,             \* history: the send_data call of this message / of shutdown
    acked,            \* history: cache entries whose message offset is committed
    faults,           \* messages that met a failing store call or commit
    redis_client,     \* idempotency_handler.redis_client: "open" or "closed"
    exit,             \* history: how _consume_loop was left
    last_send,        \* history: what the most recent send_data call returned
    call              \* a call of send_data followed on its own

cvars == <<pc, running, consumer, msg, site, stats, customer_cache,
           inventory_cache, store, cur, prev, stats0, sent, acked, faults,
           redis_client, exit, last_send>>

vars == <<cvars, call, redis_client, exit, last_send>>

-----------------------------------------------------------------------------
(* Bounds *)

MaxMsgs == 3          \* messages polled in one run
MaxFaults == 1        \* messages in one run that meet store errors or raising commits
retry_attempts == 2   \* ANALYTICS_CONFIG['retry_attempts'] used by the consumer
retry_backoff == 2    \* ANALYTICS_CONFIG['retry_backoff'] used by the consumer
MaxAttempts == 3      \* largest retry_attempts given to send_data on its own
MaxBackoff == 3       \* largest retry_backoff given to send_data on its own

-----------------------------------------------------------------------------
(* Messages *)

None == "None"

customer_topic == "customers"
inventory_topic == "inventory"
Topics == {customer_topic, inventory_topic, "other"}

\* message values as they arrive (decoded bytes)
Values == {"{bad", "[1]", "{id:a,name:x}", "{id:a,name:y}", "{id:b,name:x}",
           "{name:x}", "{id:,name:x}"}

NoMsg == [topic |-> "-", key |-> None, value |-> "-"]

\* msg.key().decode('utf-8') if msg.key() else None
Keys == {None, "k1"}

\* the messages the broker delivers
Messages == [topic : {customer_topic, inventory_topic}, key : {None}, value : Values]
               \cup [topic : Topics, key : {None}, value : {"{id:a,name:x}"}]
               \cup [topic : {inventory_topic}, key : Keys, value : {"{id:a,name:x}"}]

\* json.loads: raises JSONDecodeError on text that is not JSON
JsonValid(v) == v # "{bad"

json_loads(v) ==
    CASE v = "[1]"            -> [type |-> "list", fields |-> [item0 |-> "1"]]
      [] v = "{id:a,name:x}"  -> [type |-> "dict", fields |-> [id |-> "a", name |-> "x"]]
      [] v = "{id:a,name:y}"  -> [type |-> "dict", fields |-> [id |-> "a", name |-> "y"]]
      [] v = "{id:b,name:x}"  -> [type |-> "dict", fields |-> [id |-> "b", name |-> "x"]]
      [] v = "{name:x}"       -> [type |-> "dict", fields |-> [name |-> "x"]]
      [] v = "{id:,name:x}"   -> [type |-> "dict", fields |-> [id |-> "", name |-> "x"]]

\* dict.get(key): None when the key is missing
Get(d, k) == IF k \in DOMAIN d THEN d[k] ELSE None

\* truth value of a string or None
Truthy(v) == v # None /\ v # ""

-----------------------------------------------------------------------------
(* IdempotencyHandler *)

KeyOrder == <<"additional", "email", "id", "item0", "name", "stock">>

\* variant: the topic of the message in hand goes into the hash
generate_message_hash_with_topic(data) ==
    LET keys == SelectSeq(KeyOrder, LAMBDA k : k \in DOMAIN data.fields)
    IN  [type |-> data.type,
         pairs |-> [i \in 1..Len(keys) |-> <<keys[i], data.fields[keys[i]]>>],
         topic |-> msg.topic]

\* json.dumps(message_data, sort_keys=True) followed by sha256, which is
\* taken to be collision free: the hash is the canonical text
generate_message_hash(data) ==
    LET keys == SelectSeq(KeyOrder, LAMBDA k : k \in DOMAIN data.fields)
    IN  [type |-> data.type,
         pairs |-> [i \in 1..Len(keys) |-> <<keys[i], data.fields[keys[i]]>>]]

\* variant: never finds the key
is_duplicate_never(h, up) == FALSE

\* variant: fails closed, an unreachable store makes every message a duplicate
is_duplicate_fail_closed(h, up) == IF up THEN h \in store ELSE TRUE

\* redis_client.exists(...) == 1, False on RedisError (up = FALSE)
is_duplicate(h, up) == IF up THEN h \in store ELSE FALSE

\* the store after redis_client.setex(...); unchanged on RedisError
StoreAfterMark(h, up) == IF up THEN store \cup {h} ELSE store

-----------------------------------------------------------------------------
(* DataMerger *)

HasId(cache, id) == \E i \in 1..Len(cache) : cache[i].id = id

\* variant: an existing key keeps its record
Upsert_keep_first(cache, id, data) ==
    IF HasId(cache, id)
    THEN cache
    ELSE Append(cache, [id |-> id, data |-> data])

\* cache[id] = data on a dict: an existing key keeps its position
Upsert(cache, id, data) ==
    IF HasId(cache, id)
    THEN [i \in 1..Len(cache) |->
             IF cache[i].id = id THEN [id |-> id, data |-> data] ELSE cache[i]]
    ELSE Append(cache, [id |-> id, data |-> data])

\* variant: no check of the id
add_data_any(cache, data) == Upsert(cache, Get(data, "id"), data)

\* add_customer_data / add_inventory_data
add_data(cache, data) ==
    IF Truthy(Get(data, "id")) THEN Upsert(cache, data.id, data) ELSE cache

\* if 'additional' in data and data['additional']
HasAdditional(data) == Truthy(Get(data, "additional"))

_format_customers(cache) ==
    [i \in 1..Len(cache) |->
        LET data == cache[i].data IN
        IF HasAdditional(data)
        THEN [id |-> cache[i].id,
              name |-> Get(data, "name"),
              email |-> Get(data, "email"),
              additional_info |-> data.additional]
        ELSE [id |-> cache[i].id,
              name |-> Get(data, "name"),
              email |-> Get(data, "email")]]

_format_inventory(cache) ==
    [i \in 1..Len(cache) |->
        LET data == cache[i].data IN
        IF HasAdditional(data)
        THEN [id |-> cache[i].id,
              name |-> Get(data, "name"),
              stock |-> Get(data, "stock"),
              additional_info |-> data.additional]
        ELSE [id |-> cache[i].id,
              name |-> Get(data, "name"),
              stock |-> Get(data, "stock")]]

NoSnapshot == [absent |-> TRUE]

\* variant: absent when either cache is empty
merge_data_either(cc, ic) ==
    IF cc = <<>> \/ ic = <<>>
    THEN NoSnapshot
    ELSE [absent |-> FALSE,
          customers |-> _format_customers(cc),
          inventory |-> _format_inventory(ic),
          summary |-> [total_customers |-> Len(cc), total_products |-> Len(ic)]]

\* the snapshot's timestamp is left out: nothing in the consumer reads it
merge_data(cc, ic) ==
    IF cc = <<>> /\ ic = <<>>
    THEN NoSnapshot
    ELSE [absent |-> FALSE,
          customers |-> _format_customers(cc),
          inventory |-> _format_inventory(ic),
          summary |-> [total_customers |-> Len(cc), total_products |-> Len(ic)]]

get_cache_stats(cc, ic) ==
    [customers_cached |-> Len(cc), inventory_cached |-> Len(ic)]

-----------------------------------------------------------------------------
(* AnalyticsClient *)

\* what one requests.post can end in
Ok200 == [exc |-> "none", status |-> 200]
Outcomes == {Ok200,
             [exc |-> "none", status |-> 201],
             [exc |-> "none", status |-> 202],
             [exc |-> "none", status |-> 500],
             [exc |-> "Timeout", status |-> 0],
             [exc |-> "ConnectionError", status |-> 0],
             [exc |-> "Exception", status |-> 0]}

Success(o) == o.exc = "none" /\ o.status \in {200, 201, 202}

\* variant: without the last except clause
Caught_requests_only(o) == o.exc \in {"Timeout", "ConnectionError"}

\* the exceptions the three except clauses of send_data catch
Caught(o) == o.exc \in {"Timeout", "ConnectionError", "Exception"}

\* variant: linear backoff
backoff_time_linear(b, attempt) == b * attempt

\* backoff_time = self.retry_backoff ** attempt
backoff_time(b, attempt) == b ^ attempt

\* if attempt < self.retry_attempts: time.sleep(backoff_time)
SleepsAfter(attempt, n) == attempt < n

\* a call of send_data: outs[i] is what request i ends in, sleeps the
\* arguments of time.sleep so far
NewCall(n, b, outs) ==
    [n |-> n, b |-> b, outs |-> outs, attempt |-> 1, requests |-> 0,
     sleeps |-> <<>>, at |-> "loop", result |-> "none"]

NoCall == [NewCall(0, 0, <<>>) EXCEPT !.at = "none"]

\* one iteration of the for loop of send_data, or the return after it
send_step(c) ==
    IF c.attempt > c.n
    THEN [c EXCEPT !.at = "done", !.result = "false"]
    ELSE LET o == c.outs[c.attempt] IN
         IF Success(o)
         THEN [c EXCEPT !.requests = @ + 1, !.at = "done", !.result = "true"]
         ELSE IF o.exc # "none" /\ ~Caught(o)
         THEN [c EXCEPT !.requests = @ + 1, !.at = "done", !.result = "raised"]
         ELSE [c EXCEPT !.requests = @ + 1,
                        !.sleeps = IF SleepsAfter(c.attempt, c.n)
                                   THEN Append(@, backoff_time(c.b, c.attempt))
                                   ELSE @,
                        !.attempt = @ + 1]

RECURSIVE send_run(_)
send_run(c) == IF c.at = "done" THEN c ELSE send_run(send_step(c))

\* send_data(data) under retry_attempts = n and retry_backoff = b
send_data(n, b, outs) == send_run(NewCall(n, b, outs))

-----------------------------------------------------------------------------
(* KafkaMessageConsumer *)

NoCur == [msg |-> NoMsg, log |-> <<>>]
NoPrev == [msg |-> NoMsg, marked |-> FALSE]
NoSend == [by |-> "-", ok |-> FALSE, snapshot |-> NoSnapshot]

InLog(e) == \E i \in 1..Len(cur.log) : cur.log[i] = e
Logged(e) == [cur EXCEPT !.log = Append(@, e)]

Entries(kind, cache) == {<<kind, cache[i].id>> : i \in 1..Len(cache)}

Bump(s, field) == [s EXCEPT ![field] = @ + 1]

\* the message being processed has met a failing store call or commit
Faulty == InLog("check_err") \/ InLog("mark_err") \/ InLog("commit_raise")

\* variant: clears whatever send_data returned
ClearsAfter_always(success) == TRUE

\* if success: self.data_merger.clear_cache()
ClearsAfter(success) == success

\* variant: clears the customers only
clear_cache_customers_only(cc, ic) == [customers |-> <<>>, inventory |-> ic]

\* clear_cache
clear_cache(cc, ic) == [customers |-> <<>>, inventory |-> <<>>]

\* variant: the count is lost
after_commit_never(at, s) == s

\* line 142 after the commit of line 141; the other commits return
after_commit(at, s) ==
    IF at = "main" THEN Bump(s, "successfully_processed") ELSE s

\* what the sink answers to the requests of the consumer
SinkOutcomes == {Ok200, [exc |-> "none", status |-> 500],
                 [exc |-> "Timeout", status |-> 0]}

\* an external call works (TRUE) or, while the bound allows, fails (FALSE)
Ups == IF faults < MaxFaults \/ Faulty THEN {TRUE, FALSE} ELSE {TRUE}
Charge(failed) == IF failed /\ ~Faulty THEN faults + 1 ELSE faults

Init ==
    /\ pc = "idle"
    /\ running = FALSE
    /\ consumer = "none"
    /\ msg = NoMsg
    /\ site = "-"
    /\ stats = [total_consumed |-> 0, duplicates_skipped |-> 0,
                successfully_processed |-> 0, errors |-> 0]
    /\ customer_cache = <<>>
    /\ inventory_cache = <<>>
    /\ store = {}
    /\ cur = NoCur
    /\ prev = NoPrev
    /\ stats0 = stats
    /\ sent = NoSend
    /\ acked = {}
    /\ faults = 0
    /\ redis_client = "open"
    /\ exit = "-"
    /\ last_send = "none"
    /\ call = NoCall

\* start(): create the consumer, subscribe, set running, install the handlers
Start ==
    /\ pc = "idle"
    /\ consumer' = "open"
    /\ running' = TRUE
    /\ pc' = "loop"
    /\ UNCHANGED <<msg, site, stats, customer_cache, inventory_cache, store,
                   cur, prev, stats0, sent, acked, faults, call, redis_client, exit, last_send>>

\* start() left by an exception before the loop is entered: _create_consumer
\* raised (no consumer yet), or subscribe raised after the consumer was created
StartFail ==
    /\ pc = "idle"
    /\ \E created \in BOOLEAN :
          consumer' = IF created THEN "open" ELSE "none"
    /\ pc' = "failed"
    /\ UNCHANGED <<running, msg, site, stats, customer_cache, inventory_cache,
                   store, cur, prev, stats0, sent, acked, faults, call,
                   redis_client, exit, last_send>>

\* _signal_handler: runs between any two steps once installed
SignalHandler ==
    /\ pc \notin {"idle", "failed", "stopped"}
    /\ running
    /\ running' = FALSE
    /\ UNCHANGED <<pc, consumer, msg, site, stats, customer_cache,
                   inventory_cache, store, cur, prev, stats0, sent, acked,
                   faults, call, redis_client, exit, last_send>>

\* variant: the loop does not look at the flag
LoopCheck_ignores_flag ==
    /\ pc = "loop"
    /\ pc' = "poll"
    /\ prev' = IF cur = NoCur THEN prev
               ELSE [msg |-> cur.msg, marked |-> InLog("mark")]
    /\ cur' = NoCur
    /\ sent' = NoSend
    /\ stats0' = stats
    /\ UNCHANGED <<running, consumer, msg, site, stats, customer_cache,
                   inventory_cache, store, acked, faults, call, redis_client,
                   exit, last_send>>

\* while self.running: ... finally: self._shutdown()
\* (the history of the finished iteration is folded into prev)
LoopCheck ==
    /\ pc = "loop"
    /\ pc' = IF running THEN "poll" ELSE "shutdown"
    /\ prev' = IF cur = NoCur THEN prev
               ELSE [msg |-> cur.msg, marked |-> InLog("mark")]
    /\ cur' = NoCur
    /\ sent' = NoSend
    /\ stats0' = stats
    /\ exit' = IF running THEN exit ELSE "flag"
    /\ UNCHANGED <<running, consumer, msg, site, stats, customer_cache,
                   inventory_cache, store, acked, faults, call, redis_client,
                   last_send>>

\* poll returned None: continue
PollNone ==
    /\ pc = "poll"
    /\ pc' = "loop"
    /\ UNCHANGED <<running, consumer, msg, site, stats, customer_cache,
                   inventory_cache, store, cur, prev, stats0, sent, acked,
                   faults, call, redis_client, exit, last_send>>

\* poll returned a message with an error: _handle_kafka_error logs, continue
PollError ==
    /\ pc = "poll"
    /\ pc' = "loop"
    /\ UNCHANGED <<running, consumer, msg, site, stats, customer_cache,
                   inventory_cache, store, cur, prev, stats0, sent, acked,
                   faults, call, redis_client, exit, last_send>>

\* what ends the loop besides the flag: the two exceptions _consume_loop
\* catches, and any other one, which passes through finally
Raised == {"KeyboardInterrupt", "KafkaException", "Exception"}

\* the loop body raised (poll, msg.error): except clauses, then finally
PollRaise ==
    /\ pc = "poll"
    /\ pc' = "shutdown"
    /\ \E e \in Raised : exit' = e
    /\ UNCHANGED <<running, consumer, msg, site, stats, customer_cache,
                   inventory_cache, store, cur, prev, stats0, sent, acked,
                   faults, call, redis_client, last_send>>

\* poll returned a message: _process_message(msg) is entered
PollMessage ==
    /\ pc = "poll"
    /\ stats.total_consumed < MaxMsgs
    /\ \E m \in Messages :
          /\ msg' = m
          /\ cur' = [msg |-> m, log |-> <<>>]
    /\ pc' = "process"
    /\ UNCHANGED <<running, consumer, site, stats, customer_cache,
                   inventory_cache, store, prev, stats0, sent, acked, faults, call, redis_client, exit, last_send>>

\* a key of the deduplication store reaches its TTL (while poll waits)
Expire ==
    /\ pc = "poll"
    /\ \E h \in store :
          /\ store' = store \ {h}
          /\ prev' = IF /\ prev.msg # NoMsg
                        /\ JsonValid(prev.msg.value)
                        /\ h = generate_message_hash(json_loads(prev.msg.value))
                     THEN [prev EXCEPT !.marked = FALSE]
                     ELSE prev
    /\ UNCHANGED <<pc, running, consumer, msg, site, stats, customer_cache,
                   inventory_cache, cur, stats0, sent, acked, faults, call, redis_client, exit, last_send>>

\* _process_message up to the dispatch: count, parse, duplicate check
ParseAndCheck ==
    /\ pc = "process"
    /\ IF ~JsonValid(msg.value)
       THEN /\ stats' = Bump(Bump(stats, "total_consumed"), "errors")
            /\ site' = "parse"
            /\ pc' = "commit"
            /\ cur' = Logged("badjson")
            /\ UNCHANGED faults
       ELSE \E up \in Ups :
              LET h == generate_message_hash(json_loads(msg.value)) IN
              /\ faults' = Charge(~up)
              /\ IF is_duplicate(h, up)
                 THEN /\ stats' = Bump(Bump(stats, "total_consumed"),
                                       "duplicates_skipped")
                      /\ site' = "dup"
                      /\ pc' = "commit"
                      /\ cur' = Logged("dup")
                 ELSE /\ stats' = Bump(stats, "total_consumed")
                      /\ site' = "main"
                      /\ pc' = "dispatch"
                      /\ cur' = Logged(IF up THEN "fresh" ELSE "check_err")
    /\ UNCHANGED <<running, consumer, msg, customer_cache, inventory_cache,
                   store, prev, stats0, sent, acked, call, redis_client, exit, last_send>>

\* variant: every topic is dispatched
KnownTopic_any(topic) == TRUE

\* topic == customer_topic, elif topic == inventory_topic
KnownTopic(topic) == topic \in {customer_topic, inventory_topic}

\* the topic dispatch and the add_*_data call of _process_*_message;
\* data.get raises AttributeError when the JSON value is not an object
Dispatch ==
    /\ pc = "dispatch"
    /\ LET data == json_loads(msg.value) IN
       IF ~KnownTopic(msg.topic)
       THEN /\ pc' = "mark"
            /\ UNCHANGED <<customer_cache, inventory_cache, cur, acked>>
       ELSE IF data.type # "dict"
       THEN /\ pc' = "except"
            /\ cur' = Logged("raise")
            /\ UNCHANGED <<customer_cache, inventory_cache, acked>>
       ELSE /\ pc' = "trysend"
            /\ IF msg.topic = customer_topic
               THEN /\ customer_cache' = add_data(customer_cache, data.fields)
                    /\ UNCHANGED inventory_cache
               ELSE /\ inventory_cache' = add_data(inventory_cache, data.fields)
                    /\ UNCHANGED customer_cache
            /\ IF Truthy(Get(data.fields, "id"))
               THEN /\ cur' = Logged("add")
                    /\ acked' = acked \ {<<msg.topic, data.fields.id>>}
               ELSE UNCHANGED <<cur, acked>>
    /\ UNCHANGED <<running, consumer, msg, site, stats, store, prev, stats0,
                   sent, faults, call, redis_client, exit, last_send>>

\* variant: waits for a second customer
ShouldSend_second_customer(cache_stats) ==
    cache_stats.customers_cached > 1 /\ cache_stats.inventory_cached > 0

\* send when we have data from both sources
ShouldSend(cache_stats) ==
    cache_stats.customers_cached > 0 /\ cache_stats.inventory_cached > 0

\* _try_send_merged_data
TrySend ==
    /\ pc = "trysend"
    /\ LET cache_stats == get_cache_stats(customer_cache, inventory_cache)
           merged_data == merge_data(customer_cache, inventory_cache)
       IN  IF ShouldSend(cache_stats) /\ ~merged_data.absent
           THEN \E outs \in [1..retry_attempts -> SinkOutcomes] :
                  LET r == send_data(retry_attempts, retry_backoff, outs)
                      success == r.result = "true"
                      cleared == clear_cache(customer_cache, inventory_cache)
                  IN
                  /\ sent' = [by |-> "message", ok |-> success,
                              snapshot |-> merged_data]
                  /\ last_send' = r.result
                  /\ cur' = Logged(IF success THEN "send_ok" ELSE "send_fail")
                  /\ IF ClearsAfter(success)
                     THEN /\ customer_cache' = cleared.customers
                          /\ inventory_cache' = cleared.inventory
                          /\ acked' = Entries(customer_topic, cleared.customers)
                                \cup Entries(inventory_topic, cleared.inventory)
                     ELSE UNCHANGED <<customer_cache, inventory_cache, acked>>
           ELSE UNCHANGED <<customer_cache, inventory_cache, acked, cur, sent,
                            last_send>>
    /\ pc' = "mark"
    /\ UNCHANGED <<running, consumer, msg, site, stats, store, prev, stats0,
                   faults, call, redis_client, exit>>

\* idempotency_handler.mark_as_processed(message_hash, ...)
Mark ==
    /\ pc = "mark"
    /\ \E up \in Ups :
          /\ store' = StoreAfterMark(
                          generate_message_hash(json_loads(msg.value)), up)
          /\ cur' = Logged(IF up THEN "mark" ELSE "mark_err")
          /\ faults' = Charge(~up)
    /\ pc' = "commit"
    /\ UNCHANGED <<running, consumer, msg, site, stats, customer_cache,
                   inventory_cache, prev, stats0, sent, acked, call, redis_client, exit, last_send>>

\* one consumer.commit(message=msg) call and what follows it in
\* _process_message: the return, or the count of line 142 and the return.
\* A commit that raises outside the handler enters the handler; one that
\* raises inside the handler leaves _process_message and is caught by
\* _consume_loop as KafkaException.
Commit ==
    /\ pc = "commit"
    /\ \E works \in Ups :
          /\ faults' = Charge(~works)
          /\ IF works
             THEN /\ cur' = Logged("commit")
                  /\ pc' = "loop"
                  /\ site' = "-"
                  /\ stats' = after_commit(site, stats)
                  /\ acked' = Entries(customer_topic, customer_cache)
                                 \cup Entries(inventory_topic, inventory_cache)
                  /\ UNCHANGED exit
             ELSE /\ cur' = Logged("commit_raise")
                  /\ pc' = IF site = "except" THEN "shutdown" ELSE "except"
                  /\ site' = IF site = "except" THEN "-" ELSE site
                  /\ exit' = IF site = "except" THEN "KafkaException" ELSE exit
                  /\ UNCHANGED <<stats, acked>>
    /\ UNCHANGED <<running, consumer, msg, customer_cache, inventory_cache,
                   store, prev, stats0, sent, call, redis_client, last_send>>

\* except Exception: count the error, then commit
Except ==
    /\ pc = "except"
    /\ stats' = Bump(stats, "errors")
    /\ site' = "except"
    /\ pc' = "commit"
    /\ UNCHANGED <<running, consumer, msg, customer_cache, inventory_cache,
                   store, cur, prev, stats0, sent, acked, faults, call, redis_client, exit, last_send>>

\* variant: flushes only when both caches hold records
NeedsFlush_both(cache_stats) ==
    cache_stats.customers_cached > 0 /\ cache_stats.inventory_cached > 0

\* the condition of the final flush in _shutdown
NeedsFlush(cache_stats) ==
    cache_stats.customers_cached > 0 \/ cache_stats.inventory_cached > 0

\* if self.consumer: self.consumer.close()
close(c) == IF c = "open" THEN "closed" ELSE c

\* _shutdown: final flush, then close the consumer
\* (the history of the last message ends with the loop)
Shutdown ==
    /\ pc = "shutdown"
    /\ LET cache_stats == get_cache_stats(customer_cache, inventory_cache)
           merged_data == merge_data(customer_cache, inventory_cache)
       IN  IF NeedsFlush(cache_stats) /\ ~merged_data.absent
           THEN \E outs \in [1..retry_attempts -> SinkOutcomes] :
                  LET r == send_data(retry_attempts, retry_backoff, outs) IN
                  /\ sent' = [by |-> "shutdown", ok |-> r.result = "true",
                              snapshot |-> merged_data]
                  /\ last_send' = r.result
           ELSE /\ sent' = NoSend
                /\ UNCHANGED last_send
    /\ consumer' = close(consumer)
    /\ pc' = "stopped"
    /\ msg' = NoMsg
    /\ cur' = NoCur
    /\ prev' = NoPrev
    /\ stats0' = stats
    /\ UNCHANGED <<running, site, stats, customer_cache, inventory_cache,
                   store, acked, faults, call, redis_client, exit>>

Next ==
    \/ Start
    \/ StartFail
    \/ SignalHandler
    \/ LoopCheck
    \/ PollNone
    \/ PollError
    \/ PollRaise
    \/ PollMessage
    \/ Expire
    \/ ParseAndCheck
    \/ Dispatch
    \/ TrySend
    \/ Mark
    \/ Commit
    \/ Except
    \/ Shutdown

Spec == Init /\ [][Next]_vars

\* the steps of the one thread that runs start(): every call it makes
\* returns or raises, poll within its timeout of one second
Thread ==
    \/ Start
    \/ StartFail
    \/ LoopCheck
    \/ PollNone
    \/ PollError
    \/ PollRaise
    \/ PollMessage
    \/ ParseAndCheck
    \/ Dispatch
    \/ TrySend
    \/ Mark
    \/ Commit
    \/ Except
    \/ Shutdown

\* the thread is never stopped for good before start() returns
FairSpec == Init /\ [][Next]_vars /\ WF_vars(Thread)

-----------------------------------------------------------------------------
(* send_data on its own, for every attempt count, backoff base and sink *)

SendInit ==
    /\ pc = "idle"
    /\ running = FALSE
    /\ consumer = "none"
    /\ msg = NoMsg
    /\ site = "-"
    /\ stats = [total_consumed |-> 0, duplicates_skipped |-> 0,
                successfully_processed |-> 0, errors |-> 0]
    /\ customer_cache = <<>>
    /\ inventory_cache = <<>>
    /\ store = {}
    /\ cur = NoCur
    /\ prev = NoPrev
    /\ stats0 = stats
    /\ sent = NoSend
    /\ acked = {}
    /\ faults = 0
    /\ redis_client = "open"
    /\ exit = "-"
    /\ last_send = "none"
    /\ \E n \in 0..MaxAttempts, b \in 0..MaxBackoff,
          outs \in [1..MaxAttempts -> Outcomes] :
          call = NewCall(n, b, outs)

\* one attempt: the request, its outcome, the sleep before the next one
SendAttempt ==
    /\ call.at = "loop"
    /\ call.attempt <= call.n
    /\ call' = send_step(call)
    /\ UNCHANGED cvars

\* the range is exhausted: log the failure and return False
SendGiveUp ==
    /\ call.at = "loop"
    /\ call.attempt > call.n
    /\ call' = send_step(call)
    /\ UNCHANGED cvars

SendNext == SendAttempt \/ SendGiveUp

SendSpec == SendInit /\ [][SendNext]_vars

-----------------------------------------------------------------------------
(* Properties *)

\* _process_message has just returned, or was left by an exception
Returned == pc \in {"loop", "shutdown"} /\ cur # NoCur

Count(log, e) == Cardinality({i \in 1..Len(log) : log[i] = e})
CommitCalls(log) == Count(log, "commit") + Count(log, "commit_raise")
MarkCalls(log) == Count(log, "mark") + Count(log, "mark_err")
Sends(log) == Count(log, "send_ok") + Count(log, "send_fail")

IsRecord(m) == JsonValid(m.value) /\ json_loads(m.value).type = "dict"
NoIdMsg(m) == IsRecord(m) /\ Get(json_loads(m.value).fields, "id") \in {None, ""}
WellFormed(m) ==
    /\ IsRecord(m)
    /\ ~NoIdMsg(m)
    /\ m.topic \in {customer_topic, inventory_topic}

Fingerprints(cache) ==
    {generate_message_hash([type |-> "dict", fields |-> cache[i].data]) :
        i \in 1..Len(cache)}

\* C1: every message handed to _process_message has consumer.commit called
\* for it exactly once, on every path.
C1_CommitExactlyOnce == Returned => CommitCalls(cur.log) = 1

\* C2 as claimed: merge_data is absent whenever either cache is empty, and
\* no snapshot handed to send_data has an empty customers or inventory list.
C2_AbsentIfEitherEmpty ==
    /\ merge_data(customer_cache, inventory_cache).absent
          <=> (customer_cache = <<>> \/ inventory_cache = <<>>)
    /\ sent.by # "-" =>
          sent.snapshot.customers # <<>> /\ sent.snapshot.inventory # <<>>

\* C2 as amended: merge_data is absent exactly when both caches are empty;
\* a snapshot sent for a message has both lists non-empty, a snapshot sent
\* by the shutdown flush has at least one list non-empty.
C2_AbsentIffBothEmpty ==
    /\ merge_data(customer_cache, inventory_cache).absent
          <=> (customer_cache = <<>> /\ inventory_cache = <<>>)
    /\ sent.by # "-" => ~sent.snapshot.absent
    /\ sent.by = "message" =>
          sent.snapshot.customers # <<>> /\ sent.snapshot.inventory # <<>>
    /\ sent.by = "shutdown" =>
          sent.snapshot.customers # <<>> \/ sent.snapshot.inventory # <<>>

C2_Witness ==
    /\ pc = "stopped"
    /\ sent.by = "shutdown"
    /\ sent.snapshot.customers # <<>>
    /\ sent.snapshot.inventory = <<>>

\* C3: a send_data call that returns false leaves both caches as they were
\* before it, so the next merge offers the same records again.
C3_FailedSendKeepsCaches ==
    [][(pc \in {"trysend", "shutdown"} /\ pc' # pc /\ sent'.by # "-" /\ ~sent'.ok)
          => /\ customer_cache' = customer_cache
             /\ inventory_cache' = inventory_cache
             /\ get_cache_stats(customer_cache', inventory_cache')
                   = [customers_cached |-> Len(sent'.snapshot.customers),
                      inventory_cached |-> Len(sent'.snapshot.inventory)]
             /\ merge_data(customer_cache', inventory_cache') = sent'.snapshot
      ]_vars

C3_Witness ==
    /\ pc = "mark"
    /\ sent.by = "message"
    /\ ~sent.ok
    /\ Len(customer_cache) = 2
    /\ inventory_cache # <<>>

Removes(cache, after) == \E i \in 1..Len(cache) : ~HasId(after, cache[i].id)

\* C4: cache entries are removed only by the step that sent a snapshot of
\* the whole cache and got true, and that step leaves both caches empty.
C4_ClearOnlyAfterAcceptedSend ==
    [][/\ (Removes(customer_cache, customer_cache')
             \/ Removes(inventory_cache, inventory_cache'))
          => /\ pc = "trysend"
             /\ sent'.by = "message"
             /\ sent'.ok
             /\ sent'.snapshot.customers = _format_customers(customer_cache)
             /\ sent'.snapshot.inventory = _format_inventory(inventory_cache)
       /\ (pc = "trysend" /\ pc' = "mark" /\ sent'.by = "message" /\ sent'.ok)
          => get_cache_stats(customer_cache', inventory_cache')
                = [customers_cached |-> 0, inventory_cached |-> 0]
      ]_vars

C4_Witness ==
    /\ pc = "mark"
    /\ sent.by = "message"
    /\ sent.ok
    /\ Len(sent.snapshot.customers) = 2
    /\ customer_cache = <<>>
    /\ inventory_cache = <<>>

\* C5: a fresh well-formed record is added once and marked once; the same
\* message submitted again right after it (store reachable, key not
\* expired) is skipped: counted as duplicate, committed, not added, not
\* marked, not sent.
C5_SecondSubmissionSkipped ==
    /\ (Returned /\ WellFormed(cur.msg) /\ cur.log[1] \in {"fresh", "check_err"})
          => Count(cur.log, "add") = 1 /\ MarkCalls(cur.log) = 1
    /\ (Returned /\ prev.msg = cur.msg /\ prev.marked /\ cur.log[1] # "check_err")
          => /\ cur.log[1] = "dup"
             /\ stats.duplicates_skipped = stats0.duplicates_skipped + 1
             /\ CommitCalls(cur.log) >= 1
             /\ Count(cur.log, "add") = 0
             /\ MarkCalls(cur.log) = 0
             /\ Sends(cur.log) = 0
             /\ sent.by = "-"

\* the second submission, after the delivery triggered by the first failed
C5_Witness ==
    /\ Returned
    /\ prev.msg = cur.msg
    /\ WellFormed(cur.msg)
    /\ prev.marked
    /\ cur.log = <<"dup", "commit">>
    /\ customer_cache # <<>>
    /\ inventory_cache # <<>>

RECURSIVE SumSeq(_)
SumSeq(s) == IF s = <<>> THEN 0 ELSE Head(s) + SumSeq(Tail(s))

RECURSIVE Power(_, _)
Power(b, e) == IF e = 0 THEN 1 ELSE b * Power(b, e - 1)

\* b^1 + ... + b^k
RECURSIVE GeoSum(_, _)
GeoSum(b, k) == IF k <= 0 THEN 0 ELSE Power(b, k) + GeoSum(b, k - 1)

Accepted(o) == o.exc = "none" /\ o.status \in {200, 201, 202}

\* the first of the n configured attempts the sink accepts, 0 when none
FirstAccepted(c) ==
    LET good == {i \in 1..c.n : Accepted(c.outs[i])}
    IN  IF good = {} THEN 0 ELSE CHOOSE i \in good : \A j \in good : i <= j

\* C6: with k < N failures before the first success send_data makes k+1
\* requests, sleeps b^1 .. b^k and returns true; with N failures it makes N
\* requests, sleeps b^1 .. b^(N-1) and returns false.
C6_RetryBackoff ==
    call.at = "done" =>
        LET first == FirstAccepted(call)
            k == IF first > 0 THEN first - 1 ELSE call.n - 1
        IN  /\ call.requests = (IF first > 0 THEN first ELSE call.n)
            /\ call.result = (IF first > 0 THEN "true" ELSE "false")
            /\ Len(call.sleeps) = (IF k > 0 THEN k ELSE 0)
            /\ \A i \in 1..Len(call.sleeps) : call.sleeps[i] = Power(call.b, i)
            /\ SumSeq(call.sleeps) = GeoSum(call.b, k)

\* retry_attempts = 3, retry_backoff = 2, a sink that fails twice
C6_Witness ==
    /\ call.at = "done"
    /\ call.n = 3
    /\ call.b = 2
    /\ call.result = "true"
    /\ call.requests = 3
    /\ call.sleeps = <<2, 4>>

\* C7: send_data never raises and returns a boolean; it returns true
\* exactly when one of the first N requests got 200, 201 or 202, every
\* other outcome is retried, and no request follows the first success.
C7_NeverRaises ==
    /\ call.result \in {"none", "true", "false"}
    /\ call.requests <= call.n
    /\ \A i \in 1..call.requests - 1 : ~Accepted(call.outs[i])
    /\ call.at = "done" =>
          /\ call.result \in {"true", "false"}
          /\ call.result = "true" <=> \E i \in 1..call.n : Accepted(call.outs[i])
          /\ call.result = "true" => Accepted(call.outs[call.requests])
          /\ call.result = "false" => call.requests = call.n

\* a timeout, a connection failure and another exception, each retried
C7_Witness ==
    /\ call.at = "done"
    /\ call.n = 3
    /\ call.outs[1].exc = "Timeout"
    /\ call.outs[2].exc = "ConnectionError"
    /\ call.outs[3].exc = "Exception"
    /\ call.result = "false"
    /\ call.requests = 3

Processing == {"process", "dispatch", "trysend", "mark", "commit", "except"}

\* C8 as claimed: a message whose record has no id is committed, is not
\* added to a cache and triggers no send.
C8_NoIdNeverSends ==
    (Returned /\ NoIdMsg(cur.msg))
        => /\ CommitCalls(cur.log) >= 1
           /\ Count(cur.log, "add") = 0
           /\ Sends(cur.log) = 0
           /\ sent.by = "-"

\* C8 as amended: a message whose record has no id is committed and is
\* never added to a cache; it triggers a send exactly when it is not a
\* duplicate, its topic is known and both caches are non-empty already,
\* and the caches change only when that send is accepted.
C8_NoIdSendsOnlyLeftovers ==
    [][(pc \in Processing /\ NoIdMsg(msg))
          => /\ pc # "trysend"
                => /\ customer_cache' = customer_cache
                   /\ inventory_cache' = inventory_cache
                   /\ sent' = sent
             /\ (pc = "trysend" /\ pc' = "mark")
                => /\ sent'.by = "message"
                      <=> (customer_cache # <<>> /\ inventory_cache # <<>>)
                   /\ sent'.by = "message"
                      => sent'.snapshot
                            = merge_data(customer_cache, inventory_cache)
                   /\ \/ /\ customer_cache' = customer_cache
                         /\ inventory_cache' = inventory_cache
                      \/ /\ sent'.ok
                         /\ customer_cache' = <<>>
                         /\ inventory_cache' = <<>>
             /\ pc' \in {"loop", "shutdown"} => CommitCalls(cur'.log) >= 1
             /\ Count(cur'.log, "add") = 0
      ]_vars

C8_Witness ==
    /\ Returned
    /\ NoIdMsg(cur.msg)
    /\ "id" \notin DOMAIN json_loads(cur.msg.value).fields
    /\ cur.msg.topic = inventory_topic
    /\ sent.by = "message"
    /\ CommitCalls(cur.log) = 1

\* C9 as claimed: after a failed send the triggering message is marked in
\* the store, committed and counted in successfully_processed, errors
\* unchanged.
C9_FailedSendCountsAsProcessed ==
    (Returned /\ Count(cur.log, "send_fail") = 1)
        => /\ Count(cur.log, "mark") = 1
           /\ CommitCalls(cur.log) >= 1
           /\ stats.successfully_processed = stats0.successfully_processed + 1
           /\ stats.errors = stats0.errors

Rank(e) ==
    CASE e \in {"fresh", "check_err"} -> 0
      [] e = "add" -> 1
      [] e \in {"send_ok", "send_fail"} -> 2
      [] e \in {"mark", "mark_err"} -> 3
      [] e \in {"commit", "commit_raise"} -> 4
      [] OTHER -> 5

\* the effects of a message come in the order check, add, send, mark, commit
InOrder(log) ==
    /\ \A i, j \in 1..Len(log) :
          i < j => \/ Rank(log[i]) < Rank(log[j])
                   \/ Rank(log[i]) = 4 /\ Rank(log[j]) = 4
    /\ Sends(log) > 0 \/ MarkCalls(log) > 0 => Count(log, "add") = 1
    /\ CommitCalls(log) > 0 => MarkCalls(log) = 1

\* C9 as amended: after a failed send mark_as_processed is still called
\* (the key is stored when the store is reachable), then commit; when that
\* commit returns the message is counted in successfully_processed with
\* errors unchanged, when it raises the message is counted in errors
\* instead.  Every non-duplicate well-formed message has its effects in
\* the order add, send attempt, mark_as_processed, commit.
C9_FailedSendStillMarkedAndCommitted ==
    /\ (cur # NoCur /\ cur.log # <<>> /\ WellFormed(cur.msg) /\ Rank(cur.log[1]) = 0)
          => InOrder(cur.log)
    /\ (Returned /\ Count(cur.log, "send_fail") = 1)
          => LET first == cur.log[Len(cur.log) - CommitCalls(cur.log) + 1] IN
             /\ MarkCalls(cur.log) = 1
             /\ Count(cur.log, "mark") = 1 =>
                   generate_message_hash(json_loads(cur.msg.value)) \in store
             /\ CommitCalls(cur.log) >= 1
             /\ \A i \in 1..Len(cur.log) :
                   Rank(cur.log[i]) = 4 => i > Len(cur.log) - CommitCalls(cur.log)
             /\ first = "commit" =>
                   /\ stats.successfully_processed
                         = stats0.successfully_processed + 1
                   /\ stats.errors = stats0.errors
             /\ first = "commit_raise" =>
                   /\ stats.successfully_processed = stats0.successfully_processed
                   /\ stats.errors = stats0.errors + 1

C9_Witness ==
    /\ Returned
    /\ WellFormed(cur.msg)
    /\ cur.log = <<"fresh", "add", "send_fail", "mark", "commit">>
    /\ stats.successfully_processed = stats0.successfully_processed + 1

\* C10: every record in the cache belongs to a message whose offset is not
\* committed and whose fingerprint is not marked processed.
C10_CachedRecordsUncommitted ==
    pc # "stopped" =>
        /\ acked = {}
        /\ Fingerprints(customer_cache) \cap store = {}
        /\ Fingerprints(inventory_cache) \cap store = {}

StoreFailed(log) == Count(log, "check_err") + Count(log, "mark_err") > 0

\* the commit calls are the last entries of a log: the first of them
FirstCommit(log) == log[Len(log) - CommitCalls(log) + 1]

C12_BadJsonOneError ==
    (Returned /\ ~JsonValid(cur.msg.value))
        => /\ cur.log[1] = "badjson"
           /\ CommitCalls(cur.log) >= 1
           /\ stats.total_consumed = stats0.total_consumed + 1
           /\ stats.errors = stats0.errors + 1
           /\ stats.duplicates_skipped = stats0.duplicates_skipped
           /\ stats.successfully_processed = stats0.successfully_processed
           /\ Count(cur.log, "add") = 0
           /\ Sends(cur.log) = 0
           /\ MarkCalls(cur.log) = 0
           /\ sent.by = "-"

\* Idle, Running, ShuttingDown, Stopped as 0 .. 3
Phase(p) ==
    CASE p \in {"idle", "failed"} -> 0
      [] p \in {"loop", "poll"} \cup Processing -> 1
      [] p = "shutdown" -> 2
      [] p = "stopped" -> 3

Ids(s) == {s[i].id : i \in 1..Len(s)}

\* C14: every way out of the loop (flag cleared, KeyboardInterrupt,
\* KafkaException, any other exception) leads to _shutdown, which runs
\* once: it makes one send_data call with a snapshot of all cached records
\* when either cache is non-empty and none when both are empty, closes the
\* consumer, and is never entered again.
C14_ShutdownOnEveryExit ==
    [][
       /\ (Phase(pc) = 1 /\ Phase(pc') # 1)
             => /\ pc' = "shutdown"
                /\ exit = "-"
                /\ exit' \in {"flag"} \cup Raised
                /\ exit' = "flag" <=> (pc = "loop" /\ ~running)
       /\ (pc = "shutdown" /\ pc' # pc)
             => /\ pc' = "stopped"
                /\ exit' = exit
                /\ consumer = "open" /\ consumer' = "closed"
                /\ customer_cache' = customer_cache
                /\ inventory_cache' = inventory_cache
                /\ (customer_cache # <<>> \/ inventory_cache # <<>>)
                      => /\ sent'.by = "shutdown"
                         /\ ~sent'.snapshot.absent
                         /\ Ids(sent'.snapshot.customers) = Ids(customer_cache)
                         /\ Ids(sent'.snapshot.inventory) = Ids(inventory_cache)
                         /\ sent'.snapshot
                               = merge_data(customer_cache, inventory_cache)
                         /\ last_send' = (IF sent'.ok THEN "true" ELSE "false")
                /\ (customer_cache = <<>> /\ inventory_cache = <<>>)
                      => sent' = NoSend /\ last_send' = last_send
       /\ pc = "stopped" => pc' = "stopped" /\ consumer' = "closed"
      ]_vars

\* an exception other than the two the loop catches, one record cached
C14_Witness ==
    /\ pc = "stopped"
    /\ exit = "Exception"
    /\ running
    /\ consumer = "closed"
    /\ sent.by = "shutdown"
    /\ sent.snapshot.customers = <<>>
    /\ Len(sent.snapshot.inventory) = 1

\* C15: on every way out after the clients were acquired, a failure in
\* start included, the broker client and the deduplication-store client
\* have each been released.
C15_ClientsReleased ==
    pc \in {"stopped", "failed"}
        => /\ consumer \in {"none", "closed"}
           /\ redis_client = "closed"

\* a message on a topic that is neither of the two configured ones
OtherTopic(m) == m.topic \notin {customer_topic, inventory_topic}

Unique(list) == Cardinality(Ids(list)) = Len(list)

\* the record the snapshot list carries for an id
Carried(list, id) == {list[i] : i \in {j \in 1..Len(list) : list[j].id = id}}

\* C17: a snapshot of merge_data has summary.total_customers equal to the
\* number of customer cache entries and to the length of its customers
\* list, summary.total_products likewise for the inventory, and no id
\* twice in a list; a record added under an id replaces the record cached
\* under that id and leaves the others alone, so the snapshot carries the
\* record added last.
C17_SnapshotCountsLastWrite ==
    /\ [](LET snapshot == merge_data(customer_cache, inventory_cache) IN
          ~snapshot.absent
             => /\ snapshot.summary.total_customers = Len(customer_cache)
                /\ snapshot.summary.total_customers = Len(snapshot.customers)
                /\ snapshot.summary.total_products = Len(inventory_cache)
                /\ snapshot.summary.total_products = Len(snapshot.inventory)
                /\ Unique(snapshot.customers)
                /\ Unique(snapshot.inventory)
                /\ Ids(snapshot.customers) = Ids(customer_cache)
                /\ Ids(snapshot.inventory) = Ids(inventory_cache))
    /\ [](sent.by # "-"
             => /\ sent.snapshot.summary.total_customers
                      = Len(sent.snapshot.customers)
                /\ sent.snapshot.summary.total_products
                      = Len(sent.snapshot.inventory)
                /\ Unique(sent.snapshot.customers)
                /\ Unique(sent.snapshot.inventory))
    /\ [][(pc = "dispatch" /\ pc' = "trysend" /\ Count(cur'.log, "add") = 1)
             => LET data == json_loads(msg.value).fields
                    mine == msg.topic = customer_topic
                    old == IF mine THEN customer_cache ELSE inventory_cache
                    new == IF mine THEN customer_cache' ELSE inventory_cache'
                    snapshot == merge_data(customer_cache', inventory_cache')
                    list == IF mine THEN snapshot.customers
                                    ELSE snapshot.inventory
                IN  /\ Len(new) = Len(old) + (IF HasId(old, data.id) THEN 0 ELSE 1)
                    /\ \A i \in 1..Len(old) :
                          old[i].id # data.id => new[i] = old[i]
                    /\ Cardinality({i \in 1..Len(new) : new[i].id = data.id}) = 1
                    /\ \A i \in 1..Len(new) :
                          new[i].id = data.id => new[i].data = data
                    /\ Cardinality(Carried(list, data.id)) = 1
                    /\ \A r \in Carried(list, data.id) :
                          r.name = Get(data, "name")
                    /\ (IF mine THEN inventory_cache' = inventory_cache
                                ELSE customer_cache' = customer_cache)
          ]_vars

\* customer a is added with name x, then with name y: one entry, name y
C17_Witness ==
    /\ pc = "trysend"
    /\ stats.total_consumed = 2
    /\ prev.msg.topic = customer_topic
    /\ prev.msg.value = "{id:a,name:x}"
    /\ prev.marked
    /\ msg.topic = customer_topic
    /\ msg.value = "{id:a,name:y}"
    /\ merge_data(customer_cache, inventory_cache).customers
          = <<[id |-> "a", name |-> "y", email |-> None]>>
    /\ merge_data(customer_cache, inventory_cache).summary.total_customers = 1

\* C18: after every completed call of _process_message total_consumed is
\* the sum of duplicates_skipped, successfully_processed and errors.
C18_CounterConservation ==
    pc = "loop"
        => stats.total_consumed
              = stats.duplicates_skipped + stats.successfully_processed
                   + stats.errors

\* C19: between two iterations of the loop both caches hold records only
\* if the most recent send_data call returned false; while no send_data
\* call has returned false last, at most one cache holds records.
C19_BothCachedOnlyAfterFailedSend ==
    pc \in {"loop", "poll"}
        => /\ (customer_cache # <<>> /\ inventory_cache # <<>>)
                 => last_send = "false"
           /\ last_send \in {"none", "true"}
                 => (customer_cache = <<>> \/ inventory_cache = <<>>)

\* a send failed, the next message (a duplicate) sent nothing
C19_Witness ==
    /\ pc = "loop"
    /\ customer_cache # <<>>
    /\ inventory_cache # <<>>
    /\ last_send = "false"
    /\ cur.log = <<"dup", "commit">>
    /\ sent.by = "-"

\* C20: the duplicate decision depends on the decoded record only.  With
\* the store reachable and the key not expired, a message whose value is
\* that of the message marked right before it, on another topic or with
\* another key, is skipped as a duplicate: counted, committed, not added
\* to the cache of its own kind, not marked, not sent.
C20_DuplicateAcrossTopics ==
    (Returned /\ prev.marked /\ prev.msg.value = cur.msg.value
       /\ prev.msg # cur.msg /\ cur.log[1] # "check_err")
        => /\ cur.log[1] = "dup"
           /\ stats.duplicates_skipped = stats0.duplicates_skipped + 1
           /\ CommitCalls(cur.log) >= 1
           /\ Count(cur.log, "add") = 0
           /\ MarkCalls(cur.log) = 0
           /\ Sends(cur.log) = 0
           /\ sent.by = "-"

\* customer a, then the same record on the inventory topic under a key
C20_Witness ==
    /\ Returned
    /\ prev.marked
    /\ prev.msg.topic = customer_topic
    /\ cur.msg.topic = inventory_topic
    /\ cur.msg.key = "k1"
    /\ prev.msg.value = cur.msg.value
    /\ cur.log = <<"dup", "commit">>
    /\ customer_cache # <<>>
    /\ inventory_cache = <<>>

====
